---- MODULE Spec2Model ----
(***************************************************************************)
(* Model of installtool.py, the CKCT software installation tool: the main  *)
(* menu loop, checksum verification, package classification (pack_list)    *)
(* and the per-host remote installation (install_remote).                  *)
(*                                                                         *)
(* Text (file names, prefixes, commands) is modelled as sequences of       *)
(* one-character strings, so that startswith, glob matching, sorting and   *)
(* f-string formatting are computed as the code computes them.             *)
(***************************************************************************)
EXTENDS Integers, Sequences, FiniteSets, TLC

VARIABLES
    files,        \* names of the files in the working directory
    md5txt,       \* content of md5.txt: NoFile or a sequence of lines
    today,        \* datetime.date.today()
    pc,           \* position of main / install_remote
    choice,       \* main: choice (index into ops), -1 before a selection
    rpms,         \* main: rpms = find_rpms()
    passed,       \* main: passed = verify_md5s(...) returned True
    pack_lists,   \* pack_list: rcc_pack_list, dcc_pack_list, bcc_pack_list
    all_ok,       \* pack_list: all_ok
    result,       \* main: result = pack_list(rpms)
    sw_down,      \* no_running_sw() has returned in this operation
    step,         \* full deployment: index of the host being deployed
    host,         \* install_remote: remote_ip of the current invocation
    to_install,   \* install_remote: rpms
    upload_dir,   \* install_remote: upload_dir
    idx,          \* install_remote: position of the for loop over remotes
    mkdir_res,    \* install_remote: result of remote_command(mkdir)
    scp_res,      \* install_remote: result of scp_files
    yum_all,      \* install_remote: every install so far exited with status 0
    yum_last,     \* install_remote: the latest install exited with status 0
    install_ret,  \* install_remote: the value returned
    failed_hosts, \* the hosts of this operation with a failed step
    raised,       \* main: the exception caught in this operation, or "none"
    override,     \* pack_list: the answer to the override question, or "unasked"
    manifest,     \* verify_md5s: hashes, the dict read from md5.txt
    report,       \* verify_md5s: the per-artifact results printed
    remote_password, \* install_remote: remote_password, << >> outside an invocation
    printed,      \* the texts printed by the latest step of install_remote
    stdin_written, \* what the latest remote command was given on its standard input
    sessions,     \* the sessions of this operation that are open
    stdin_closed, \* the standard input of the latest remote command has been closed for writing
    ready,        \* main: the answer to 'Ready to deploy these?', or "unasked"
    log           \* remote operations issued since the last menu selection

vars == << files, md5txt, today, pc, choice, rpms, passed, pack_lists, all_ok,
           result,
           sw_down, step, host, to_install, upload_dir, idx, mkdir_res,
           scp_res, yum_all, yum_last, install_ret, failed_hosts, raised, override,
           manifest,
           report,
           remote_password,
           printed,
           stdin_written,
           sessions,
           stdin_closed,
           ready,
           log >>

-----------------------------------------------------------------------------
(* Program constants                                                       *)

BCC_IP == "192.168.6.6"
DCC_IP == "192.168.5.5"
RCC_IP == "localhost"

BCC_PACK_LIST ==
    << <<"c","k","c","t","-","B","a","s","e","C","C">>,
       <<"c","k","c","t","-","b","c","c","_","c","o","n","f","i","g">> >>

DCC_PACK_LIST ==
    << <<"c","k","c","t","-","d","a","s","C","o","n","t","r","o","l">>,
       <<"c","k","c","t","-","d","c","c","_","c","o","n","f","i","g">>,
       <<"c","k","c","t","-","D","i","s","c","C","C">>,
       <<"c","k","c","t","-","s","p","e","l","l","m","a","n","X","R","a","y","C","o","n","t","r","o","l">> >>

RCC_PACK_LIST ==
    << <<"c","k","c","t","-","D","a","t","a","H","a","n","d","l","e","r">>,
       <<"c","k","c","t","-","i","m","a","g","i","n","g">>,
       <<"c","k","c","t","-","k","m","o","d">>,
       <<"c","k","c","t","-","l","o","g","g","e","r">>,
       <<"c","k","c","t","-","m","o","t","o","r","C","o","n","t","r","o","l">>,
       <<"c","k","c","t","-","m","s","c","p">>,
       <<"c","k","c","t","-","r","c","c","_","c","o","n","f","i","g">>,
       <<"c","k","c","t","-","R","e","c","o","n","C","C">>,
       <<"c","k","c","t","-","r","e","c","o","r","d","e","r">>,
       <<"c","k","c","t","-","t","o","o","l","s">>,
       <<"c","k","c","t","-","u","t","i","l","s">>,
       <<"c","k","c","t","-","u","t","i","l","s","4","9","1","7","2">> >>

-----------------------------------------------------------------------------
(* Text helpers                                                            *)

\* The characters that occur in the model, in ascending code point order.
CodePoints ==
    <<"\n"," ","'","-",".","/","0","1","2","3","4","5","6","7","8","9","B","C","D","H","R","S","X","_","a","b","c","d","e","f","g","i","k","l","m","n","o","p","r","s","t","u","v","w","x","y","|">>

Ord(c) == CHOOSE i \in 1..Len(CodePoints) : CodePoints[i] = c

Range(s) == { s[i] : i \in 1..Len(s) }

\* str.startswith
StartsWith(full, x) ==
    /\ Len(x) <= Len(full)
    /\ SubSeq(full, 1, Len(x)) = x

EndsWith(full, x) ==
    /\ Len(x) <= Len(full)
    /\ SubSeq(full, Len(full) - Len(x) + 1, Len(full)) = x

Contains(full, x) ==
    \E i \in 1..(Len(full) - Len(x) + 1) :
        \A k \in 1..Len(x) : full[i + k - 1] = x[k]

\* a < b for str: lexicographic by code point, compared from position i on
RECURSIVE StrLessFrom(_, _, _)
StrLessFrom(a, b, i) ==
    IF i > Len(a) THEN i <= Len(b)
    ELSE IF i > Len(b) THEN FALSE
    ELSE IF a[i] = b[i] THEN StrLessFrom(a, b, i + 1)
    ELSE Ord(a[i]) < Ord(b[i])

StrLess(a, b) == StrLessFrom(a, b, 1)

\* sorted(...) of a set of distinct names
RECURSIVE Sorted(_)
Sorted(S) ==
    IF S = {} THEN << >>
    ELSE LET x    == CHOOSE y \in S : TRUE
             rest == Sorted(S \ {x})
             k    == Cardinality({ i \in 1..Len(rest) : StrLess(rest[i], x) })
         IN  SubSeq(rest, 1, k) \o << x >> \o SubSeq(rest, k + 1, Len(rest))

DotRpm ==
    <<".","r","p","m">>

X86_64 ==
    <<"x","8","6","_","6","4">>

Armv7l ==
    <<"a","r","m","v","7","l">>

InstalltoolDash ==
    <<"i","n","s","t","a","l","l","t","o","o","l","-">>

MkdirP ==
    <<"m","k","d","i","r"," ","-","p"," ">>

YumInstall ==
    <<"y","u","m"," ","-","y"," ","i","n","s","t","a","l","l"," ">>

SudoPrefix ==
    <<"s","u","d","o"," ","-","S"," ","-","p"," ","'","'"," ">>

Slash ==
    <<"/">>

-----------------------------------------------------------------------------
(* The files the working directory is drawn from: one package per expected *)
(* prefix (the release) and a few further packages.                        *)

V1X86 ==
    <<"-","1",".","x","8","6","_","6","4",".","r","p","m">>

V1Arm ==
    <<"-","1",".","a","r","m","v","7","l",".","r","p","m">>

UtilsV2 ==
    <<"c","k","c","t","-","u","t","i","l","s","-","2",".","x","8","6","_","6","4",".","r","p","m">>

DiscV2 ==
    <<"c","k","c","t","-","D","i","s","c","C","C","-","2",".","a","r","m","v","7","l",".","r","p","m">>

BaseV2 ==
    <<"c","k","c","t","-","B","a","s","e","C","C","-","2",".","a","r","m","v","7","l",".","r","p","m">>

Unknown ==
    <<"u","n","k","n","o","w","n","-","1",".","x","8","6","_","6","4",".","r","p","m">>

ReleaseFiles ==
    { RCC_PACK_LIST[i] \o V1X86 : i \in 1..Len(RCC_PACK_LIST) }
        \cup { DCC_PACK_LIST[i] \o V1Arm : i \in 1..Len(DCC_PACK_LIST) }
        \cup { BCC_PACK_LIST[i] \o V1Arm : i \in 1..Len(BCC_PACK_LIST) }

ExtraFiles == { UtilsV2, DiscV2, BaseV2, Unknown }

\* The working directories with at most m release files missing and at most
\* e further packages present.
Directories(m, e) ==
    { (ReleaseFiles \ miss) \cup extra :
        miss \in { s \in SUBSET ReleaseFiles : Cardinality(s) <= m },
        extra \in { s \in SUBSET ExtraFiles : Cardinality(s) <= e } }

MaxMissing == 1
MaxExtra == 2

\* The working directories main is started in: the complete release, the
\* release with a package nothing expects, with one package missing, with one
\* package replaced by a second build of another one, and without the
\* packages of one host.
WorkingDirs ==
    { ReleaseFiles,
      ReleaseFiles \cup {Unknown},
      ReleaseFiles \ {RCC_PACK_LIST[3] \o V1X86},
      (ReleaseFiles \ {RCC_PACK_LIST[3] \o V1X86}) \cup {UtilsV2},
      ReleaseFiles \ { BCC_PACK_LIST[i] \o V1Arm : i \in 1..Len(BCC_PACK_LIST) } }

-----------------------------------------------------------------------------
(* find_rpms                                                               *)

\* Path.glob(f"{('*' + title_match) if title_match else ''}*.rpm")
GlobMatch(name, title_match) ==
    /\ EndsWith(name, DotRpm)
    /\ Contains(SubSeq(name, 1, Len(name) - Len(DotRpm)), title_match)

find_rpms(dir, title_match) ==
    Sorted({ n \in dir : GlobMatch(n, title_match) })

-----------------------------------------------------------------------------
(* pack_list                                                               *)

\* find_partial with only the first expected prefix tested
find_partial_FirstOnly(full, partial_list) ==
    StartsWith(full, partial_list[1])

find_partial(full, partial_list) ==
    LET res == SelectSeq(partial_list, LAMBDA x : StartsWith(full, x))
    IN  Len(res) > 0

\* The for loop over found_rpms with insert(0, rpm) in place of append(rpm)
RECURSIVE pack_loop_Prepend(_, _, _)
pack_loop_Prepend(found_rpms, i, acc) ==
    IF i > Len(found_rpms) THEN acc
    ELSE LET name == found_rpms[i]
         IN  IF find_partial(name, RCC_PACK_LIST)
                THEN pack_loop_Prepend(found_rpms, i + 1,
                         [acc EXCEPT !.rcc = << name >> \o @])
             ELSE IF find_partial(name, DCC_PACK_LIST)
                THEN pack_loop_Prepend(found_rpms, i + 1,
                         [acc EXCEPT !.dcc = << name >> \o @])
             ELSE IF find_partial(name, BCC_PACK_LIST)
                THEN pack_loop_Prepend(found_rpms, i + 1,
                         [acc EXCEPT !.bcc = << name >> \o @])
             ELSE pack_loop_Prepend(found_rpms, i + 1,
                         [acc EXCEPT !.all_ok = FALSE])

\* The for loop over found_rpms, from position i on.
RECURSIVE pack_loop(_, _, _)
pack_loop(found_rpms, i, acc) ==
    IF i > Len(found_rpms) THEN acc
    ELSE LET name == found_rpms[i]
         IN  IF find_partial(name, RCC_PACK_LIST)
                THEN pack_loop(found_rpms, i + 1,
                         [acc EXCEPT !.rcc = Append(@, name)])
             ELSE IF find_partial(name, DCC_PACK_LIST)
                THEN pack_loop(found_rpms, i + 1,
                         [acc EXCEPT !.dcc = Append(@, name)])
             ELSE IF find_partial(name, BCC_PACK_LIST)
                THEN pack_loop(found_rpms, i + 1,
                         [acc EXCEPT !.bcc = Append(@, name)])
             ELSE pack_loop(found_rpms, i + 1,
                         [acc EXCEPT !.all_ok = FALSE])

\* The length checks with "at least" in place of "exactly"
count_ok_AtLeast(pack, expected) == Len(pack) >= Len(expected)

\* The three length checks that follow the loop.
count_ok(pack, expected) == Len(pack) = Len(expected)

\* pack_list up to the override question: the three lists and all_ok.
pack_classify(found_rpms) ==
    LET acc == pack_loop(found_rpms, 1,
                   [rcc |-> << >>, dcc |-> << >>, bcc |-> << >>,
                    all_ok |-> TRUE])
    IN  [acc EXCEPT !.all_ok =
            /\ acc.all_ok
            /\ count_ok(acc.rcc, RCC_PACK_LIST)
            /\ count_ok(acc.dcc, DCC_PACK_LIST)
            /\ count_ok(acc.bcc, BCC_PACK_LIST)]

None == [is_none |-> TRUE, rcc |-> << >>, dcc |-> << >>, bcc |-> << >>]

\* pack_list returning the lists whatever the operator answers
pack_list_IgnoreAnswer(found_rpms, cont) ==
    LET c == pack_classify(found_rpms)
    IN  [is_none |-> FALSE, rcc |-> c.rcc, dcc |-> c.dcc, bcc |-> c.bcc]

\* pack_list: cont is the operator's answer to the override question, asked
\* only when all_ok is false.
pack_list(found_rpms, cont) ==
    LET c == pack_classify(found_rpms)
    IN  IF ~c.all_ok /\ ~cont
           THEN None
           ELSE [is_none |-> FALSE, rcc |-> c.rcc, dcc |-> c.dcc,
                 bcc |-> c.bcc]

-----------------------------------------------------------------------------
(* calc_md5, read_md5_file, verify_md5s                                    *)

HexDigits ==
    <<"0","1","2","3","4","5","6","7","8","9","a","b","c","d","e","f">>

NoFile == << << "ENOENT" >> >>

\* md5.txt exists and open() fails on it
Unreadable == << << "EACCES" >> >>

AllFiles == Sorted(ReleaseFiles \cup ExtraFiles)

\* The content digest of the file of that name in the working directory:
\* every file of the model has its own digest.
calc_md5(name) ==
    LET i == CHOOSE k \in 1..Len(AllFiles) : AllFiles[k] = name
    IN  << "a", "b", HexDigits[(i \div 16) + 1], HexDigits[(i % 16) + 1] >>

\* str.replace('|', '')
RemovePipes(s) == SelectSeq(s, LAMBDA c : c # "|")

IsSpace(c) == c \in { " ", "\n" }

\* str.strip()
RECURSIVE LStrip(_)
LStrip(s) ==
    IF s # << >> /\ IsSpace(Head(s)) THEN LStrip(Tail(s)) ELSE s

RECURSIVE RStrip(_)
RStrip(s) ==
    IF s # << >> /\ IsSpace(s[Len(s)])
       THEN RStrip(SubSeq(s, 1, Len(s) - 1))
       ELSE s

Strip(s) == RStrip(LStrip(s))

\* str.split(' '): the fields between single separators, empty fields kept.
RECURSIVE Split(_, _)
Split(s, sep) ==
    IF \A i \in 1..Len(s) : s[i] # sep THEN << s >>
    ELSE LET k == CHOOSE i \in 1..Len(s) :
                      /\ s[i] = sep
                      /\ \A j \in 1..(i - 1) : s[j] # sep
         IN  << SubSeq(s, 1, k - 1) >> \o Split(SubSeq(s, k + 1, Len(s)), sep)

\* line[0] != '|' or line[-2] != '|'; line[-2] raises IndexError on a line
\* of one character, and is evaluated only when line[0] is '|'.
LineIndexError(line) == line[1] = "|" /\ Len(line) < 2

LineSkipped(line) ==
    \/ line[1] # "|"
    \/ Len(line) >= 2 /\ line[Len(line) - 1] # "|"

\* LineRow without the strip
LineRow_NoStrip(line) == Split(RemovePipes(line), " ")

LineRow(line) == Split(Strip(RemovePipes(line)), " ")

\* The for loop over lines, from position i on, with the dict built so far.
RECURSIVE read_loop(_, _, _)
read_loop(lines, i, hashes) ==
    IF i > Len(lines) THEN [err |-> "none", hashes |-> hashes]
    ELSE LET line == lines[i]
         IN  IF LineIndexError(line)
                THEN [err |-> "IndexError", hashes |-> hashes]
             ELSE IF LineSkipped(line)
                THEN read_loop(lines, i + 1, hashes)
             ELSE LET row == LineRow(line)
                  IN  IF Len(row) < 3
                         THEN [err |-> "IndexError", hashes |-> hashes]
                         ELSE read_loop(lines, i + 1,
                                [k \in (DOMAIN hashes) \cup {row[3]} |->
                                    IF k = row[3] THEN row[1] ELSE hashes[k]])

EmptyDict == [k \in {} |-> << >>]

read_md5_file(file) ==
    IF file = NoFile
       THEN [err |-> "AssertionError", hashes |-> EmptyDict]
    ELSE IF file = Unreadable
       THEN [err |-> "OSError", hashes |-> EmptyDict]
    ELSE read_loop(file, 1, EmptyDict)

\* verify_loop with an artifact that is not in the manifest passed over
RECURSIVE verify_loop_SkipAbsent(_, _, _, _)
verify_loop_SkipAbsent(list, hashes, i, ok) ==
    IF i > Len(list) THEN ok
    ELSE LET rpm == list[i]
         IN  IF rpm \notin DOMAIN hashes
                THEN verify_loop_SkipAbsent(list, hashes, i + 1, ok)
             ELSE IF calc_md5(rpm) # hashes[rpm]
                THEN verify_loop_SkipAbsent(list, hashes, i + 1, FALSE)
             ELSE verify_loop_SkipAbsent(list, hashes, i + 1, ok)

\* The for loop over rpms, from position i on.
RECURSIVE verify_loop(_, _, _, _)
verify_loop(list, hashes, i, ok) ==
    IF i > Len(list) THEN ok
    ELSE LET rpm == list[i]
         IN  IF rpm \notin DOMAIN hashes
                THEN verify_loop(list, hashes, i + 1, FALSE)
             ELSE IF calc_md5(rpm) # hashes[rpm]
                THEN verify_loop(list, hashes, i + 1, FALSE)
             ELSE verify_loop(list, hashes, i + 1, ok)

\* The lines the for loop over rpms prints, one per artifact: "absent" for
\* the artifact that is not in md5.txt (no digest is computed for it),
\* "mismatch" and "match" for the two results of the comparison.
RECURSIVE report_loop(_, _, _)
report_loop(list, hashes, i) ==
    IF i > Len(list) THEN << >>
    ELSE LET rpm == list[i]
             res == IF rpm \notin DOMAIN hashes THEN "absent"
                    ELSE IF calc_md5(rpm) # hashes[rpm] THEN "mismatch"
                    ELSE "match"
         IN  << [name |-> rpm, result |-> res] >>
                 \o report_loop(list, hashes, i + 1)

\* What verify_md5s prints about the artifacts
verify_report(list, file) ==
    LET r == read_md5_file(file)
    IN  IF r.err # "none" THEN << >> ELSE report_loop(list, r.hashes, 1)

\* The dict verify_md5s holds in hashes
verify_hashes(file) ==
    LET r == read_md5_file(file)
    IN  IF r.err # "none" THEN EmptyDict ELSE r.hashes

\* verify_md5s: err is the exception that leaves it, "none" when it returns.
verify_md5s(list, file) ==
    LET r == read_md5_file(file)
    IN  IF r.err = "AssertionError" THEN [err |-> "none", passed |-> FALSE]
        ELSE IF r.err # "none" THEN [err |-> r.err, passed |-> FALSE]
        ELSE [err |-> "none",
              passed |-> verify_loop(list, r.hashes, 1, TRUE)]

\* The manifests md5.txt is drawn from.
Md5Line(digest, name) ==
    << "|", " " >> \o digest \o << " ", "-", " " >> \o name
        \o << " ", "|", "\n" >>

Md5Header == << "m", "d", "5", "\n" >>

Md5Lines(names, digest(_)) ==
    << Md5Header >> \o [i \in 1..Len(names) |-> Md5Line(digest(names[i]), names[i])]

OtherDigest(name) ==
    IF name = AllFiles[1] THEN << "a", "b", "f", "f" >> ELSE calc_md5(name)

GoodManifest == Md5Lines(AllFiles, calc_md5)

Manifests ==
    { NoFile,
      GoodManifest,
      Md5Lines(AllFiles, OtherDigest),
      Md5Lines(Tail(AllFiles), calc_md5),
      GoodManifest \o << << "|", " ", "|", "\n" >> >> }

-----------------------------------------------------------------------------
(* The calendar and the staging directory name                             *)

StartDate == [year |-> 2026, month |-> 12, day |-> 30]

MaxTicks == 1

IsLeap(y) == (y % 4 = 0 /\ y % 100 # 0) \/ y % 400 = 0

DaysIn(y, m) ==
    IF m = 2 THEN (IF IsLeap(y) THEN 29 ELSE 28)
    ELSE IF m \in {4, 6, 9, 11} THEN 30 ELSE 31

NextDay(d) ==
    IF d.day < DaysIn(d.year, d.month) THEN [d EXCEPT !.day = @ + 1]
    ELSE IF d.month < 12 THEN [d EXCEPT !.month = @ + 1, !.day = 1]
    ELSE [year |-> d.year + 1, month |-> 1, day |-> 1]

RECURSIVE DateAfter(_)
DateAfter(k) == IF k = 0 THEN StartDate ELSE NextDay(DateAfter(k - 1))

\* Zero-padded decimal of width w
RECURSIVE ZeroPad(_, _)
ZeroPad(n, w) ==
    IF w = 0 THEN << >>
    ELSE ZeroPad(n \div 10, w - 1) \o << HexDigits[(n % 10) + 1] >>

\* date.strftime('%Y%m%d')
strftime(d) == ZeroPad(d.year, 4) \o ZeroPad(d.month, 2) \o ZeroPad(d.day, 2)

\* f"installtool-{datetime.date.today().strftime('%Y%m%d')}"
UploadDir(d) == InstalltoolDash \o strftime(d)

\* f"{upload_dir}/{x.name}"
RemotePath(dir, name) == dir \o Slash \o name

\* [f"{upload_dir}/{x.name}" for x in rpms]
Remotes(dir, list) == [i \in 1..Len(list) |-> RemotePath(dir, list[i])]

MkdirCommand(dir) == MkdirP \o dir

\* yum_install_remote and remote_privileged_command: the command executed
YumCommand(path) == SudoPrefix \o (YumInstall \o path)

\* ---------------------------------------------------------------------------
\* What the remote functions print and write

\* The passwords the operator types at getpass
Passwords ==
    { << "t", "0", "p", "S", "3", "c" >>, << "p", "4", "s", "s" >> }

RunningPrefix ==
    <<"R","u","n","n","i","n","g"," ","S","S","H"," ","c","o","m","m","a",
      "n","d"," ","'">>

OutputLine ==
    <<" "," ","-"," ","O","u","t","p","u","t",":"," ","[","]">>

ErrorStreamLine ==
    <<" "," ","-"," ","E","r","r","o","r"," ","S","t","r","e","a","m",":",
      " ","[","]">>

ExitCodePrefix ==
    <<" "," ","-"," ","E","x","i","t"," ","C","o","d","e",":"," ">>

UploadingPrefix ==
    <<"U","p","l","o","a","d","i","n","g"," ">>

FilesTo ==
    <<" ","f","i","l","e","s"," ","t","o"," ">>

Dots == << ".", ".", "." >>

InstallingPrefix ==
    <<"I","n","s","t","a","l","l","i","n","g"," ">>

FailLine ==
    <<"T","h","a","t"," ","d","i","d","n","'","t"," ","w","o","r","k",".",
      " ","Y","o","u"," ","m","a","y"," ","h","a","v","e"," ","a"," ","p",
      "a","r","t","i","a","l"," ","i","n","s","t","a","l","l","a","t","i",
      "o","n"," ","-"," ","p","l","e","a","s","e"," ","s","t","a","r","t",
      " ","f","r","o","m"," ","s","c","r","a","t","c","h"," ","o","r"," ",
      "c","o","n","t","a","c","t"," ","s","e","r","v","i","c","e",".">>

SendingPrefix ==
    <<"S","e","n","d","i","n","g"," ","f","i","l","e","s"," ","t","o"," ",
      "s","c","p",":"," ">>

SentLine ==
    <<"S","e","n","t"," ","f","i","l","e","s"," ","s","u","c","c","e","s",
      "s","f","u","l","l","y",".">>

ErrorSendingLine ==
    <<"E","r","r","o","r"," ","s","e","n","d","i","n","g"," ","f","i","l",
      "e","s",":"," ">>

CompleteLine ==
    <<"G","r","e","a","t",","," ","i","n","s","t","a","l","l"," ","c","o",
      "m","p","l","e","t","e","!"," ","Y","o","u","r"," ","d","e","p","l",
      "o","y","m","e","n","t"," ","i","s"," ","f","i","n","i","s","h","e",
      "d",".">>

\* str(n)
RECURSIVE Decimal(_)
Decimal(n) ==
    IF n < 10 THEN << HexDigits[n + 1] >>
    ELSE Decimal(n \div 10) \o << HexDigits[(n % 10) + 1] >>

\* The names of a list of paths, as the list is printed
RECURSIVE ListText(_, _)
ListText(list, i) ==
    IF i > Len(list) THEN << >>
    ELSE (IF i > 1 THEN << ",", " " >> ELSE << >>) \o list[i]
             \o ListText(list, i + 1)

\* remote_command and remote_privileged_command: the four prints around
\* exec_command; the remote process prints nothing of its own here.
remote_command_prints(command, ok) ==
    << RunningPrefix \o command \o << "'", "." >>,
       OutputLine,
       ErrorStreamLine,
       ExitCodePrefix \o (IF ok THEN << "0" >> ELSE << "1" >>) >>

\* remote_privileged_command with the password put on the command line
privileged_command_PasswordInCommand(command, password) ==
    << "e", "c", "h", "o", " " >> \o password \o << " ", "|", " " >>
        \o SudoPrefix \o command

\* remote_privileged_command: command = "sudo -S -p '' %s" % command
privileged_command(command, password) == SudoPrefix \o command

\* remote_privileged_command: stdin.write(remote_password + "\n")
privileged_stdin(password) == password \o << "\n" >>

\* _check_fail(res)
check_fail_prints(res) == IF res THEN << >> ELSE << FailLine >>

\* scp_files: the print before put and the print of its outcome
scp_prints(list, ok) ==
    << SendingPrefix \o ListText(list, 1),
       IF ok THEN SentLine ELSE ErrorSendingLine >>

-----------------------------------------------------------------------------
(* State                                                                   *)

NoLists == [rcc |-> << >>, dcc |-> << >>, bcc |-> << >>]

\* The state of main when it shows the menu for the first time.
Idle ==
    /\ today = StartDate
    /\ pc = "menu"
    /\ choice = -1
    /\ rpms = << >>
    /\ passed = FALSE
    /\ pack_lists = NoLists
    /\ all_ok = TRUE
    /\ result = None
    /\ sw_down = FALSE
    /\ step = 0
    /\ host = "none"
    /\ to_install = << >>
    /\ upload_dir = << >>
    /\ idx = 0
    /\ mkdir_res = TRUE
    /\ scp_res = TRUE
    /\ yum_all = TRUE
    /\ yum_last = TRUE
    /\ install_ret = FALSE
    /\ failed_hosts = {}
    /\ raised = "none"
    /\ override = "unasked"
    /\ manifest = EmptyDict
    /\ report = << >>
    /\ remote_password = << >>
    /\ printed = << >>
    /\ stdin_written = << >>
    /\ sessions = 0
    /\ stdin_closed = FALSE
    /\ ready = "unasked"
    /\ log = << >>

\* main starts in one of the working directories with the manifest of the
\* release, or in the directory of the complete release with any manifest.
Init ==
    /\ files \in WorkingDirs
    /\ md5txt \in Manifests
    /\ files = ReleaseFiles \/ md5txt = GoodManifest
    /\ Idle

LogEntry(ip, op, cmd, fl) == [ip |-> ip, op |-> op, cmd |-> cmd, files |-> fl]

-----------------------------------------------------------------------------
(* main: the menu                                                          *)

\* menu(ops) and the confirmation: the operator selects and confirms ops[c].
SelectOperation(c) ==
    /\ pc = "menu"
    /\ choice' = c
    /\ pc' = CASE c \in 0..2 -> "rpm_ask"
               [] c = 3      -> "verify_only"
               [] c = 4      -> "verify"
               [] c = 5      -> "exit"
    /\ rpms' = << >>
    /\ passed' = FALSE
    /\ pack_lists' = NoLists
    /\ all_ok' = TRUE
    /\ result' = None
    /\ sw_down' = FALSE
    /\ step' = 0
    /\ host' = "none"
    /\ to_install' = << >>
    /\ upload_dir' = << >>
    /\ idx' = 0
    /\ mkdir_res' = TRUE
    /\ scp_res' = TRUE
    /\ yum_all' = TRUE
    /\ yum_last' = TRUE
    /\ install_ret' = FALSE
    /\ failed_hosts' = {}
    /\ raised' = "none"
    /\ override' = "unasked"
    /\ manifest' = EmptyDict
    /\ report' = << >>
    /\ remote_password' = << >>
    /\ printed' = << >>
    /\ stdin_written' = << >>
    /\ sessions' = 0
    /\ stdin_closed' = FALSE
    /\ ready' = "unasked"
    /\ log' = << >>
    /\ UNCHANGED << files, md5txt, today >>

\* choice == 5: exit(0)
Exit ==
    /\ pc = "exit"
    /\ pc' = "exited"
    /\ UNCHANGED << files, md5txt, today, choice, rpms, passed, pack_lists,
                    all_ok, result, sw_down, step, host, to_install,
                    upload_dir, idx, mkdir_res, scp_res, yum_all, yum_last,
                    install_ret, failed_hosts, raised, log, override, manifest,
                    report, remote_password, printed, stdin_written,
                    sessions, stdin_closed, ready >>

\* The calendar date changes while the program runs.  The program reads the
\* date in install_remote only, right after remote_connect, so a change is
\* taken where it can be seen: before that read.
Tick ==
    /\ pc = "connect"
    /\ today \in { DateAfter(k) : k \in 0..(MaxTicks - 1) }
    /\ today' = NextDay(today)
    /\ UNCHANGED << files, md5txt, pc, choice, rpms, passed, pack_lists,
                    all_ok, result, sw_down, step, host, to_install,
                    upload_dir, idx, mkdir_res, scp_res, yum_all, yum_last,
                    install_ret, failed_hosts, raised, log, override, manifest,
                    report, remote_password, printed, stdin_written,
                    sessions, stdin_closed, ready >>

-----------------------------------------------------------------------------
(* main: the single-host installs, choice 0, 1, 2                          *)

ChoiceIp(c) == CASE c = 0 -> RCC_IP [] c = 1 -> DCC_IP [] c = 2 -> BCC_IP

ChoiceArch(c) == IF c = 0 THEN X86_64 ELSE Armv7l

MaxSelect == 2

MaxIndex == 1

\* multi_menu: "Select All", or up to MaxSelect comma-separated indexes, each
\* at most MaxIndex; an index may be typed more than once.
Selections(n) ==
    { << n + 1 >> }
        \cup UNION { [1..k -> 1..(IF n < MaxIndex THEN n ELSE MaxIndex)] :
                        k \in 1..MaxSelect }

\* verbose_rpm_ask: the packages found for the architecture and the
\* operator's confirmed selection among them.
verbose_rpm_ask(found, sel) ==
    IF sel = << Len(found) + 1 >> THEN found
    ELSE [i \in 1..Len(sel) |-> found[sel[i]]]

VerboseRpmAsk ==
    /\ pc = "rpm_ask"
    /\ LET found == find_rpms(files, ChoiceArch(choice))
       IN  /\ found # << >>
           /\ \E sel \in Selections(Len(found)) :
                  to_install' = verbose_rpm_ask(found, sel)
    /\ pc' = "no_sw"
    /\ UNCHANGED << files, md5txt, today, choice, rpms, passed, pack_lists,
                    all_ok, result, sw_down, step, host, upload_dir, idx,
                    mkdir_res, scp_res, yum_all, yum_last, install_ret, failed_hosts,
                    raised, log, override, manifest, report, remote_password,
                    printed, stdin_written, sessions, stdin_closed, ready >>

\* no_running_sw returning after the first answer, whatever it is
NoRunningSw_ProceedOnNo ==
    /\ pc = "no_sw"
    /\ \E sd \in BOOLEAN : sw_down' = sd
    /\ IF choice = 4
          THEN pc' = "ready" /\ host' = host
          ELSE pc' = "connect" /\ host' = ChoiceIp(choice)
    /\ UNCHANGED << files, md5txt, today, choice, rpms, passed, pack_lists,
                    all_ok, result, step, to_install, upload_dir, idx,
                    mkdir_res, scp_res, yum_all, yum_last, install_ret, failed_hosts,
                    raised, log, override, manifest, report, remote_password,
                    printed, stdin_written, sessions, stdin_closed, ready >>

\* no_running_sw: returns once the operator answers yes.  In a single-host
\* install the call of install_remote follows.
NoRunningSw ==
    /\ pc = "no_sw"
    /\ \E sd \in BOOLEAN :
          IF sd
             THEN /\ sw_down' = TRUE
                  /\ IF choice = 4
                        THEN pc' = "ready" /\ host' = host
                        ELSE pc' = "connect" /\ host' = ChoiceIp(choice)
             ELSE UNCHANGED << sw_down, pc, host >>
    /\ UNCHANGED << files, md5txt, today, choice, rpms, passed, pack_lists,
                    all_ok, result, step, to_install, upload_dir, idx,
                    mkdir_res, scp_res, yum_all, yum_last, install_ret, failed_hosts,
                    raised, log, override, manifest, report, remote_password,
                    printed, stdin_written, sessions, stdin_closed, ready >>

-----------------------------------------------------------------------------
(* main: choice 3 and the first half of choice 4                           *)

NoTitle == << >>

\* choice == 3: rpms = find_rpms(); verify_md5s(rpms, md5file)
VerifyOnly ==
    /\ pc = "verify_only"
    /\ rpms' = find_rpms(files, NoTitle)
    /\ raised' = verify_md5s(rpms', md5txt).err
    /\ manifest' = verify_hashes(md5txt)
    /\ report' = verify_report(rpms', md5txt)
    /\ pc' = "menu"
    /\ UNCHANGED << files, md5txt, today, choice, passed, pack_lists, all_ok,
                    result, sw_down, step, host, to_install, upload_dir, idx,
                    mkdir_res, scp_res, yum_all, yum_last, install_ret, failed_hosts,
                    log, override, remote_password, printed, stdin_written,
                    sessions, stdin_closed, ready >>

\* Choice 4 with the "if not passed: continue" left out
FullVerify_NoGate ==
    /\ pc = "verify"
    /\ rpms' = find_rpms(files, NoTitle)
    /\ manifest' = verify_hashes(md5txt)
    /\ report' = verify_report(rpms', md5txt)
    /\ LET v == verify_md5s(rpms', md5txt)
       IN  IF v.err # "none"
              THEN /\ raised' = v.err
                   /\ passed' = passed
                   /\ pc' = "menu"
              ELSE /\ raised' = raised
                   /\ passed' = v.passed
                   /\ pc' = "pack"
    /\ UNCHANGED << files, md5txt, today, choice, pack_lists, all_ok, result,
                    sw_down, step, host, to_install, upload_dir, idx,
                    mkdir_res, scp_res, yum_all, yum_last, install_ret,
                    failed_hosts, log, override, remote_password, printed,
                    stdin_written, sessions, stdin_closed, ready >>

\* choice == 4: rpms = find_rpms(); passed = verify_md5s(rpms, md5file);
\* if not passed: continue
FullVerify ==
    /\ pc = "verify"
    /\ rpms' = find_rpms(files, NoTitle)
    /\ manifest' = verify_hashes(md5txt)
    /\ report' = verify_report(rpms', md5txt)
    /\ LET v == verify_md5s(rpms', md5txt)
       IN  IF v.err # "none"
              THEN /\ raised' = v.err
                   /\ passed' = passed
                   /\ pc' = "menu"
              ELSE /\ raised' = raised
                   /\ passed' = v.passed
                   /\ pc' = IF v.passed THEN "pack" ELSE "menu"
    /\ UNCHANGED << files, md5txt, today, choice, pack_lists, all_ok, result,
                    sw_down, step, host, to_install, upload_dir, idx,
                    mkdir_res, scp_res, yum_all, yum_last, install_ret, failed_hosts,
                    log, override, remote_password, printed, stdin_written,
                    sessions, stdin_closed, ready >>

\* result = pack_list(rpms); if result is None: continue
PackList ==
    /\ pc = "pack"
    /\ LET c == pack_classify(rpms)
       IN  /\ pack_lists' = [rcc |-> c.rcc, dcc |-> c.dcc, bcc |-> c.bcc]
           /\ all_ok' = c.all_ok
           /\ \E cont \in BOOLEAN :
                  /\ c.all_ok => cont
                  /\ result' = pack_list(rpms, cont)
                  /\ override' = IF c.all_ok THEN "unasked"
                                  ELSE IF cont THEN "yes" ELSE "no"
    /\ pc' = IF result'.is_none THEN "menu" ELSE "no_sw"
    /\ UNCHANGED << files, md5txt, today, choice, rpms, passed, sw_down, step,
                    host, to_install, upload_dir, idx, mkdir_res, scp_res,
                    yum_all, yum_last, install_ret, failed_hosts, raised, log,
                    manifest, report, remote_password, printed,
                    stdin_written, sessions, stdin_closed, ready >>

-----------------------------------------------------------------------------
(* main: the second half of choice 4, the deployment of the three hosts    *)

\* The three install_remote calls with the last two exchanged
DeployOrder_Swapped == << "RCC", "BCC", "DCC" >>

\* The order of the three install_remote calls.
DeployOrder == << "RCC", "DCC", "BCC" >>

HostIp(h) == CASE h = "RCC" -> RCC_IP [] h = "DCC" -> DCC_IP [] h = "BCC" -> BCC_IP

HostPack(res, h) ==
    CASE h = "RCC" -> res.rcc [] h = "DCC" -> res.dcc [] h = "BCC" -> res.bcc

\* good = yesno("Ready to deploy these?"); the first install_remote call
\* follows a yes.
ReadyToDeploy ==
    /\ pc = "ready"
    /\ \E good \in BOOLEAN :
          IF good
             THEN /\ step' = 1
                  /\ host' = HostIp(DeployOrder[1])
                  /\ to_install' = HostPack(result, DeployOrder[1])
                  /\ pc' = "connect"
                  /\ ready' = "yes"
             ELSE /\ pc' = "menu"
                  /\ ready' = "no"
                  /\ UNCHANGED << step, host, to_install >>
    /\ UNCHANGED << files, md5txt, today, choice, rpms, passed, pack_lists,
                    all_ok, result, sw_down, upload_dir, idx, mkdir_res,
                    scp_res, yum_all, yum_last, install_ret, failed_hosts, raised,
                    log, override, manifest, report, remote_password,
                    printed, stdin_written, sessions, stdin_closed >>

-----------------------------------------------------------------------------
(* install_remote                                                          *)

\* remote_connect raising an exception that main does not catch
Connect_ExceptionEscapes ==
    /\ pc = "connect"
    /\ log' = Append(log, LogEntry(host, "connect", << >>, << >>))
    /\ install_ret' = FALSE
    /\ mkdir_res' = TRUE
    /\ scp_res' = TRUE
    /\ yum_all' = TRUE
    /\ yum_last' = TRUE
    /\ idx' = 0
    /\ printed' = << >>
    /\ stdin_written' = << >>
    /\ \E ok \in BOOLEAN, password \in Passwords :
          IF ok
             THEN /\ upload_dir' = UploadDir(today)
                  /\ pc' = "mkdir"
                  /\ raised' = raised
                  /\ failed_hosts' = failed_hosts
                  /\ remote_password' = password
                  /\ sessions' = sessions + 1
             ELSE /\ upload_dir' = << >>
                  /\ pc' = "exited"
                  /\ raised' = "SSHException"
                  /\ failed_hosts' = failed_hosts \cup {host}
                  /\ remote_password' = << >>
                  /\ sessions' = sessions
    /\ UNCHANGED << files, md5txt, today, choice, rpms, passed, pack_lists,
                    all_ok, result, sw_down, step, host, to_install,
                    override, manifest, report, stdin_closed, ready >>

\* install_remote with the exception of remote_connect swallowed
Connect_ContinueOnFailure ==
    /\ pc = "connect"
    /\ log' = Append(log, LogEntry(host, "connect", << >>, << >>))
    /\ install_ret' = FALSE
    /\ mkdir_res' = TRUE
    /\ scp_res' = TRUE
    /\ yum_all' = TRUE
    /\ yum_last' = TRUE
    /\ idx' = 0
    /\ upload_dir' = UploadDir(today)
    /\ pc' = "mkdir"
    /\ printed' = << >>
    /\ stdin_written' = << >>
    /\ \E password \in Passwords : remote_password' = password
    /\ \E ok \in BOOLEAN :
          IF ok
             THEN /\ raised' = raised
                  /\ failed_hosts' = failed_hosts
                  /\ sessions' = sessions + 1
             ELSE /\ raised' = "SSHException"
                  /\ failed_hosts' = failed_hosts \cup {host}
                  /\ sessions' = sessions
    /\ UNCHANGED << files, md5txt, today, choice, rpms, passed, pack_lists,
                    all_ok, result, sw_down, step, host, to_install,
                    override, manifest, report, stdin_closed, ready >>

\* auth_prompt, then ssh, scp = remote_connect(...) and the computation of
\* upload_dir.  remote_connect raises when the session cannot be
\* established; the exception reaches the except clause of main.
Connect ==
    /\ pc = "connect"
    /\ log' = Append(log, LogEntry(host, "connect", << >>, << >>))
    /\ install_ret' = FALSE
    /\ mkdir_res' = TRUE
    /\ scp_res' = TRUE
    /\ yum_all' = TRUE
    /\ yum_last' = TRUE
    /\ idx' = 0
    /\ printed' = << >>
    /\ stdin_written' = << >>
    /\ \E ok \in BOOLEAN, password \in Passwords :
          IF ok
             THEN /\ upload_dir' = UploadDir(today)
                  /\ pc' = "mkdir"
                  /\ raised' = raised
                  /\ failed_hosts' = failed_hosts
                  /\ remote_password' = password
                  /\ sessions' = sessions + 1
             ELSE /\ upload_dir' = << >>
                  /\ pc' = "menu"
                  /\ raised' = "SSHException"
                  /\ failed_hosts' = failed_hosts \cup {host}
                  /\ remote_password' = << >>
                  /\ sessions' = sessions
    /\ UNCHANGED << files, md5txt, today, choice, rpms, passed, pack_lists,
                    all_ok, result, sw_down, step, host, to_install,
                    override, manifest, report, stdin_closed, ready >>

\* install_remote returning when the directory cannot be created
Mkdir_AbortOnFailure ==
    /\ pc = "mkdir"
    /\ log' = Append(log, LogEntry(host, "mkdir", MkdirCommand(upload_dir), << >>))
    /\ \E ok \in BOOLEAN :
          /\ mkdir_res' = ok
          /\ pc' = IF ok THEN "scp" ELSE "ret"
          /\ printed' = << UploadingPrefix \o Decimal(Len(to_install)) \o FilesTo
                             \o upload_dir \o Dots >>
                          \o remote_command_prints(MkdirCommand(upload_dir), ok)
                          \o check_fail_prints(ok)
    /\ stdin_written' = << >>
    /\ UNCHANGED << files, md5txt, today, choice, rpms, passed, pack_lists,
                    all_ok, result, sw_down, step, host, to_install,
                    upload_dir, idx, scp_res, yum_all, yum_last, install_ret,
                    failed_hosts, raised, override, manifest, report,
                    remote_password, sessions, stdin_closed, ready >>

\* install_remote running mkdir a second time when the first has failed
Mkdir_RetryOnFailure ==
    /\ pc = "mkdir"
    /\ log' = Append(log, LogEntry(host, "mkdir", MkdirCommand(upload_dir), << >>))
    /\ \E ok \in BOOLEAN :
          /\ mkdir_res' = ok
          /\ pc' = IF ok \/ log[Len(log)].op = "mkdir" THEN "scp" ELSE "mkdir"
          /\ printed' = << UploadingPrefix \o Decimal(Len(to_install)) \o FilesTo
                             \o upload_dir \o Dots >>
                          \o remote_command_prints(MkdirCommand(upload_dir), ok)
                          \o check_fail_prints(ok)
    /\ stdin_written' = << >>
    /\ UNCHANGED << files, md5txt, today, choice, rpms, passed, pack_lists,
                    all_ok, result, sw_down, step, host, to_install,
                    upload_dir, idx, scp_res, yum_all, yum_last, install_ret,
                    failed_hosts, raised, override, manifest, report,
                    remote_password, sessions, stdin_closed, ready >>

\* _check_fail(remote_command(ssh, f'mkdir -p {upload_dir}'))
Mkdir ==
    /\ pc = "mkdir"
    /\ log' = Append(log, LogEntry(host, "mkdir", MkdirCommand(upload_dir), << >>))
    /\ \E ok \in BOOLEAN :
          /\ mkdir_res' = ok
          /\ printed' = << UploadingPrefix \o Decimal(Len(to_install)) \o FilesTo
                             \o upload_dir \o Dots >>
                          \o remote_command_prints(MkdirCommand(upload_dir), ok)
                          \o check_fail_prints(ok)
    /\ stdin_written' = << >>
    /\ pc' = "scp"
    /\ UNCHANGED << files, md5txt, today, choice, rpms, passed, pack_lists,
                    all_ok, result, sw_down, step, host, to_install,
                    upload_dir, idx, scp_res, yum_all, yum_last, install_ret,
                    failed_hosts, raised, override, manifest, report,
                    remote_password, sessions, stdin_closed, ready >>

\* _check_fail(scp_files(scp, rpms, upload_dir)), then the list of remotes
Scp ==
    /\ pc = "scp"
    /\ log' = Append(log, LogEntry(host, "scp", upload_dir, to_install))
    /\ \E ok \in BOOLEAN :
          /\ scp_res' = ok
          /\ printed' = scp_prints(to_install, ok) \o check_fail_prints(ok)
    /\ stdin_written' = << >>
    /\ idx' = 1
    /\ pc' = IF Len(Remotes(upload_dir, to_install)) = 0 THEN "ret" ELSE "yum"
    /\ UNCHANGED << files, md5txt, today, choice, rpms, passed, pack_lists,
                    all_ok, result, sw_down, step, host, to_install,
                    upload_dir, mkdir_res, yum_all, yum_last, install_ret,
                    failed_hosts, raised, override, manifest, report,
                    remote_password, sessions, stdin_closed, ready >>

\* The loop over remotes left at the first install that fails
Yum_StopOnFailure ==
    /\ pc = "yum"
    /\ LET remotes == Remotes(upload_dir, to_install)
       IN  /\ log' = Append(log, LogEntry(host, "yum", YumCommand(remotes[idx]), << >>))
           /\ \E ok \in BOOLEAN :
                  /\ yum_last' = ok
                  /\ yum_all' = (yum_all /\ ok)
                  /\ pc' = IF idx = Len(remotes) \/ ~ok THEN "ret" ELSE "yum"
                  /\ printed' =
                        << InstallingPrefix \o remotes[idx] \o Dots >>
                          \o remote_command_prints(
                                 privileged_command(YumInstall \o remotes[idx],
                                                    remote_password), ok)
                          \o check_fail_prints(ok)
    /\ stdin_written' = privileged_stdin(remote_password)
    /\ stdin_closed' = FALSE
    /\ idx' = idx + 1
    /\ UNCHANGED << files, md5txt, today, choice, rpms, passed, pack_lists,
                    all_ok, result, sw_down, step, host, to_install,
                    upload_dir, mkdir_res, scp_res, install_ret, failed_hosts,
                    raised, override, manifest, report, remote_password,
                    sessions, ready >>

\* One iteration of the loop over remotes:
\* _check_fail(yum_install_remote(ssh, remote, remote_password))
Yum ==
    /\ pc = "yum"
    /\ LET remotes == Remotes(upload_dir, to_install)
       IN  /\ log' = Append(log, LogEntry(host, "yum", YumCommand(remotes[idx]), << >>))
           /\ pc' = IF idx = Len(remotes) THEN "ret" ELSE "yum"
           /\ \E ok \in BOOLEAN :
                  /\ yum_last' = ok
                  /\ yum_all' = (yum_all /\ ok)
                  /\ printed' =
                        << InstallingPrefix \o remotes[idx] \o Dots >>
                          \o remote_command_prints(
                                 privileged_command(YumInstall \o remotes[idx],
                                                    remote_password), ok)
                          \o check_fail_prints(ok)
    /\ stdin_written' = privileged_stdin(remote_password)
    /\ stdin_closed' = FALSE
    /\ idx' = idx + 1
    /\ UNCHANGED << files, md5txt, today, choice, rpms, passed, pack_lists,
                    all_ok, result, sw_down, step, host, to_install,
                    upload_dir, mkdir_res, scp_res, install_ret, failed_hosts,
                    raised, override, manifest, report, remote_password,
                    sessions, ready >>

\* A step of the invocation that is returning has failed.
HostFailed == ~mkdir_res \/ ~scp_res \/ ~yum_all

\* return True, and what main does next: the menu after a single-host
\* install or after the last host, the next install_remote call otherwise.
\* ssh and scp are released without close(): the session is torn down at the
\* return or not, as the collection of the released objects goes.
Return ==
    /\ pc = "ret"
    /\ install_ret' = TRUE
    /\ \E collected \in BOOLEAN :
          sessions' = IF collected THEN sessions - 1 ELSE sessions
    /\ printed' = << CompleteLine >>
    /\ stdin_written' = << >>
    /\ remote_password' = << >>
    /\ failed_hosts' = IF HostFailed THEN failed_hosts \cup {host} ELSE failed_hosts
    /\ IF choice = 4 /\ step < Len(DeployOrder)
          THEN /\ step' = step + 1
               /\ host' = HostIp(DeployOrder[step + 1])
               /\ to_install' = HostPack(result, DeployOrder[step + 1])
               /\ pc' = "connect"
          ELSE /\ pc' = "menu"
               /\ UNCHANGED << step, host, to_install >>
    /\ UNCHANGED << files, md5txt, today, choice, rpms, passed, pack_lists,
                    all_ok, result, sw_down, upload_dir, idx, mkdir_res,
                    scp_res, yum_all, yum_last, raised, log, override,
                    manifest, report, stdin_closed, ready >>

-----------------------------------------------------------------------------
(* Specifications                                                          *)

Next ==
    \/ \E c \in 0..5 : SelectOperation(c)
    \/ Exit
    \/ Tick
    \/ VerboseRpmAsk
    \/ NoRunningSw
    \/ VerifyOnly
    \/ FullVerify
    \/ PackList
    \/ ReadyToDeploy
    \/ Connect
    \/ Mkdir
    \/ Scp
    \/ Yum
    \/ Return

Spec == Init /\ [][Next]_vars

\* pack_list applied to the packages of a working directory.
InitPack ==
    /\ files \in Directories(MaxMissing, MaxExtra)
    /\ md5txt = NoFile
    /\ today = StartDate
    /\ pc = "pack"
    /\ choice = 4
    /\ rpms = find_rpms(files, NoTitle)
    /\ passed = TRUE
    /\ pack_lists = NoLists
    /\ all_ok = TRUE
    /\ result = None
    /\ sw_down = FALSE
    /\ step = 0
    /\ host = "none"
    /\ to_install = << >>
    /\ upload_dir = << >>
    /\ idx = 0
    /\ mkdir_res = TRUE
    /\ scp_res = TRUE
    /\ yum_all = TRUE
    /\ yum_last = TRUE
    /\ install_ret = FALSE
    /\ failed_hosts = {}
    /\ raised = "none"
    /\ override = "unasked"
    /\ manifest = EmptyDict
    /\ report = << >>
    /\ remote_password = << >>
    /\ printed = << >>
    /\ stdin_written = << >>
    /\ sessions = 0
    /\ stdin_closed = FALSE
    /\ ready = "unasked"
    /\ log = << >>

NextPack == PackList

SpecPack == InitPack /\ [][NextPack]_vars

\* ---------------------------------------------------------------------------
\* verify_md5s over the md5.txt files that can be written with MaxLines lines

MaxLines == 2

\* The artifacts of the directories verify_md5s is started in
VerifyNames == { AllFiles[1], AllFiles[2] }

VerifyDirs == SUBSET VerifyNames

\* A digest that differs from d in its last character
OneCharOff(d) ==
    [d EXCEPT ![Len(d)] = IF d[Len(d)] = "0" THEN "1" ELSE "0"]

\* "| digest  name |": a line of md5sum between pipes
Md5sumLine(digest, name) ==
    << "|", " " >> \o digest \o << " ", " " >> \o name
        \o << " ", "|", "\n" >>

\* "| digest | - | name |": the three fields with pipes between them
PipedLine(digest, name) ==
    << "|", " " >> \o digest \o << " ", "|", " ", "-", " ", "|", " " >> \o name
        \o << " ", "|", "\n" >>

\* "digest  name": a line of md5sum with no pipes
BareLine(digest, name) ==
    digest \o << " ", " " >> \o name \o << "\n" >>

BlankLine == << "\n" >>

\* "| |": pipes around no field
ShortLine == << "|", " ", "|", "\n" >>

\* The lines of md5.txt that end in a newline
TerminatedLines ==
    { Md5Header, BlankLine, ShortLine }
        \cup UNION { { Md5Line(calc_md5(n), n),
                       Md5sumLine(calc_md5(n), n),
                       Md5sumLine(OneCharOff(calc_md5(n)), n),
                       PipedLine(calc_md5(n), n),
                       BareLine(calc_md5(n), n) } : n \in VerifyNames }

\* The line without its last character
Chop(line) == SubSeq(line, 1, Len(line) - 1)

\* The last line of an md5.txt that does not end in a newline
FinalLines ==
    { << "|" >>,
      Chop(Md5sumLine(calc_md5(AllFiles[1]), AllFiles[1])),
      Chop(BareLine(calc_md5(AllFiles[1]), AllFiles[1])) }

RECURSIVE LineSeqs(_)
LineSeqs(n) ==
    IF n = 0 THEN { << >> }
    ELSE LET shorter == LineSeqs(n - 1)
         IN  shorter \cup { Append(ls, l) : ls \in shorter, l \in TerminatedLines }

\* md5.txt as open(file, 'r') finds it: missing, unreadable, or its lines
ManifestFiles ==
    { NoFile, Unreadable }
        \cup { body \o last : body \in LineSeqs(MaxLines),
                              last \in { << >> } \cup { << f >> : f \in FinalLines } }

InitVerify ==
    /\ files \in VerifyDirs
    /\ md5txt \in ManifestFiles
    /\ today = StartDate
    /\ pc = "verify"
    /\ choice = 4
    /\ rpms = << >>
    /\ passed = FALSE
    /\ pack_lists = NoLists
    /\ all_ok = TRUE
    /\ result = None
    /\ sw_down = FALSE
    /\ step = 0
    /\ host = "none"
    /\ to_install = << >>
    /\ upload_dir = << >>
    /\ idx = 0
    /\ mkdir_res = TRUE
    /\ scp_res = TRUE
    /\ yum_all = TRUE
    /\ yum_last = TRUE
    /\ install_ret = FALSE
    /\ failed_hosts = {}
    /\ raised = "none"
    /\ override = "unasked"
    /\ manifest = EmptyDict
    /\ report = << >>
    /\ remote_password = << >>
    /\ printed = << >>
    /\ stdin_written = << >>
    /\ sessions = 0
    /\ stdin_closed = FALSE
    /\ ready = "unasked"
    /\ log = << >>

NextVerify == FullVerify

SpecVerify == InitVerify /\ [][NextVerify]_vars

-----------------------------------------------------------------------------
(* Properties                                                              *)

\* The position of a host in the order RCC, DCC, BCC, by its address.
IpRank(ip) ==
    CASE ip = "localhost" -> 1 [] ip = "192.168.5.5" -> 2 [] ip = "192.168.6.6" -> 3

\* The log entries of one kind issued to one host since the menu selection.
Issued(ip, op) == SelectSeq(log, LAMBDA e : e.ip = ip /\ e.op = op)

\* install_remote is between its upload and its return.
InInstallPhase == pc \in { "yum", "ret" }

\* C1: in a full release deployment, when the upload step of a host has
\* failed, no yum install command is issued for that host.
C1_NoInstallAfterFailedUpload ==
    (choice = 4 /\ InInstallPhase /\ ~scp_res) => Issued(host, "yum") = << >>

\* C2: in the full deployment, once a step of one host has failed, no remote
\* operation is performed on a later host (the code asks for no confirmation
\* to continue).
C2_HaltOnHostFailure ==
    choice = 4 =>
        \A i \in 1..Len(log) : \A f \in failed_hosts :
            IpRank(log[i].ip) <= IpRank(f)

\* C3: install_remote returns True only if every install command of the host
\* exited with status zero.
C3_ResultIsAndOfInstalls == install_ret => yum_all

\* C4 as stated: on every path through main, an upload is reached only after
\* verify_md5s has returned True in the same operation.
C4_UploadOnlyAfterVerify ==
    (\E i \in 1..Len(log) : log[i].op = "scp") => passed

\* C4 as amended: in the full release deployment, an upload is reached only
\* after verify_md5s has returned True for the discovered artifacts in the
\* same operation.
C4_FullDeployUploadOnlyAfterVerify ==
    (choice = 4 /\ \E i \in 1..Len(log) : log[i].op = "scp") => passed

C4_Witness ==
    /\ choice = 4
    /\ passed
    /\ \E i \in 1..Len(log) : log[i].op = "scp"

\* The operations install_remote issues to a host that it deploys in full.
FullRun(ip) ==
    /\ Len(Issued(ip, "connect")) = 1
    /\ Len(Issued(ip, "mkdir")) = 1
    /\ Len(Issued(ip, "scp")) = 1
    /\ Len(Issued(ip, "yum")) = Len(Issued(ip, "scp")[1].files)

\* C5: in the full deployment the remote operations follow the order RCC,
\* DCC, BCC without interleaving, and a host is operated on only after every
\* host before it has been deployed in full.
C5_SequentialOrder ==
    choice = 4 =>
        /\ \A i, j \in 1..Len(log) :
               i < j => IpRank(log[i].ip) <= IpRank(log[j].ip)
        /\ \A i \in 1..Len(log) :
               \A ip \in { RCC_IP, DCC_IP, BCC_IP } :
                   IpRank(ip) < IpRank(log[i].ip) => FullRun(ip)

C5_Witness ==
    /\ choice = 4
    /\ \E i \in 1..Len(log) : log[i].ip = "192.168.6.6" /\ log[i].op = "yum"

C7_NothingAfterFailedConnect ==
    raised = "SSHException" =>
        \A i \in 1..Len(log) : log[i].ip = host => log[i].op = "connect"

C7_Witness ==
    /\ raised = "SSHException"
    /\ choice = 4
    /\ host = "192.168.5.5"
    /\ pc = "menu"

\* C8: when the mkdir command exits nonzero, install_remote still attempts the
\* upload of the host's artifacts to the staging directory.
C8_UploadAfterFailedMkdir ==
    (InInstallPhase /\ ~mkdir_res) =>
        /\ Len(Issued(host, "scp")) = 1
        /\ Issued(host, "scp")[1].cmd = upload_dir
        /\ Issued(host, "scp")[1].files = to_install

C8_Witness ==
    /\ pc = "yum"
    /\ ~mkdir_res
    /\ Len(Issued(host, "scp")) = 1

\* pack_list has classified rpms.
Classified == pc # "pack"

\* C9: pack_list treats the classification as complete exactly when the three
\* lists together have as many artifacts as the input and the lists have 12,
\* 4 and 2 artifacts.
C9_Completeness ==
    Classified =>
        (all_ok <=>
            /\ Len(pack_lists.rcc) + Len(pack_lists.dcc) + Len(pack_lists.bcc)
                   = Len(rpms)
            /\ Len(pack_lists.rcc) = 12
            /\ Len(pack_lists.dcc) = 4
            /\ Len(pack_lists.bcc) = 2)

C9_Witness ==
    /\ Classified
    /\ ~all_ok
    /\ Len(pack_lists.rcc) = 13
    /\ Len(pack_lists.dcc) = 4
    /\ Len(pack_lists.bcc) = 2
    /\ Len(rpms) = 19

MatchesAny(name, prefixes) ==
    \E p \in Range(prefixes) : StartsWith(name, p)

\* C10: an artifact is in the RCC list iff it starts with an RCC prefix, in
\* the DCC list iff it starts with no RCC prefix and with a DCC prefix, in the
\* BCC list iff it starts with no RCC or DCC prefix and with a BCC prefix; so
\* it is in at most one list, and in none when it matches no prefix.
C10_FirstMatchPartition ==
    Classified =>
        \A n \in Range(rpms) :
            LET r == MatchesAny(n, RCC_PACK_LIST)
                d == MatchesAny(n, DCC_PACK_LIST)
                b == MatchesAny(n, BCC_PACK_LIST)
            IN  /\ n \in Range(pack_lists.rcc) <=> r
                /\ n \in Range(pack_lists.dcc) <=> (~r /\ d)
                /\ n \in Range(pack_lists.bcc) <=> (~r /\ ~d /\ b)

C10_Witness ==
    /\ Classified
    /\ Unknown \in Range(rpms)
    /\ \A l \in { pack_lists.rcc, pack_lists.dcc, pack_lists.bcc } :
           l # << >> /\ Unknown \notin Range(l)

\* C11: an incomplete classification is deployed only after the operator has
\* answered yes to the override question: pack_list returns the lists exactly
\* when the classification is complete or the answer is yes, and after None
\* the full deployment issues no remote operation.
C11_OverrideBeforeDeploy ==
    /\ override = "unasked" <=> all_ok
    /\ override = "no" => (result.is_none /\ log = << >>)
    /\ (choice = 4 /\ (log # << >> \/ pc \in { "no_sw", "ready", "connect" }))
           => (~result.is_none /\ override \in { "unasked", "yes" })
    /\ override = "yes" =>
           (~result.is_none /\ result.rcc = pack_lists.rcc
              /\ result.dcc = pack_lists.dcc /\ result.bcc = pack_lists.bcc)

C11_Witness ==
    /\ override = "no"
    /\ ~all_ok
    /\ result.is_none
    /\ pc = "menu"

\* verify_md5s has returned or raised (SpecVerify)
Verified == pc # "verify"

\* C12: with md5.txt read, verify_md5s returns True exactly when every
\* artifact of the list is a key of the manifest and its computed digest
\* equals the recorded one, and it reports on every artifact of the list, in
\* order, also after an artifact has failed.
C12_PassedIffAllMatch ==
    (Verified /\ raised = "none" /\ md5txt # NoFile) =>
        /\ passed <=> \A i \in 1..Len(rpms) :
                          /\ rpms[i] \in DOMAIN manifest
                          /\ calc_md5(rpms[i]) = manifest[rpms[i]]
        /\ Len(report) = Len(rpms)
        /\ \A i \in 1..Len(rpms) :
               /\ report[i].name = rpms[i]
               /\ report[i].result = "absent" <=> rpms[i] \notin DOMAIN manifest
               /\ report[i].result = "match" <=>
                      (rpms[i] \in DOMAIN manifest
                          /\ calc_md5(rpms[i]) = manifest[rpms[i]])

C12_Witness ==
    /\ Verified
    /\ raised = "none"
    /\ Len(rpms) = 2
    /\ Len(report) = 2
    /\ report[1].result = "absent"
    /\ report[2].result = "mismatch"
    /\ manifest[rpms[2]] = OneCharOff(calc_md5(rpms[2]))
    /\ ~passed

\* C13: with md5.txt missing or unreadable, verify_md5s returns False as a
\* value: nothing is raised, no artifact is reported on and no digest is
\* computed.
C13_NoManifestReturnsFalse ==
    (Verified /\ md5txt \in { NoFile, Unreadable }) =>
        /\ raised = "none"
        /\ ~passed
        /\ report = << >>

\* Text with one space between the fields
SingleSpaced(digest, unused, name) ==
    << "|", " " >> \o digest \o << " " >> \o unused \o << " " >> \o name
        \o << " ", "|", "\n" >>

\* The line is the only line of md5.txt that holds the name
OnlyLineOf(i, name) ==
    \A j \in 1..Len(md5txt) : j # i => ~Contains(md5txt[j], name)

\* The artifact of that name is reported as matching when it is verified
VerifiesAs(name, digest) ==
    (digest = calc_md5(name)) =>
        \A k \in 1..Len(report) :
            report[k].name = name => report[k].result = "match"

PipeFramed(line) ==
    /\ Len(line) >= 2
    /\ line[1] = "|"
    /\ line[Len(line)] = "\n"
    /\ line[Len(line) - 1] = "|"

\* C20: the lines of md5.txt that are not pipe-framed, a last line without
\* newline among them, are skipped: reading the file gives what reading its
\* pipe-framed lines alone gives, the same error or the same manifest.
C20_UnframedLinesSkipped ==
    (Verified /\ md5txt \notin { NoFile, Unreadable }) =>
        LET framed == read_md5_file(SelectSeq(md5txt, PipeFramed))
        IN  /\ raised = framed.err
            /\ framed.err = "none" => manifest = framed.hashes

\* The lines that are printed as they stand in the source
FixedLines ==
    { OutputLine, ErrorStreamLine, FailLine, SentLine, ErrorSendingLine,
      CompleteLine }

FixedLinesHoldNoPassword ==
    \A l \in FixedLines : \A p \in Passwords : ~Contains(l, p)

\* C15: no text printed by a step of install_remote holds a password the
\* operator can type, the command the step sends holds none, and the only text
\* written to a remote standard input is the password of this invocation
\* and a newline, for the sudo commands and for no other.
C15_PasswordOnlyOnStdin ==
    /\ FixedLinesHoldNoPassword
    /\ \A p \in Passwords :
           /\ \A i \in 1..Len(printed) :
                  printed[i] \in FixedLines \/ ~Contains(printed[i], p)
           /\ log # << >> => ~Contains(log[Len(log)].cmd, p)
    /\ stdin_written # << >> =>
           /\ remote_password \in Passwords
           /\ stdin_written = remote_password \o << "\n" >>
           /\ log[Len(log)].op = "yum"
    /\ (pc \in { "yum", "ret" } /\ log[Len(log)].op = "yum")
           => stdin_written # << >>

C15_Witness ==
    /\ pc = "ret"
    /\ log[Len(log)].op = "yum"
    /\ ~yum_last
    /\ remote_password = << "p", "4", "s", "s" >>
    /\ stdin_written = << "p", "4", "s", "s", "\n" >>
    /\ Len(printed) = 6
    /\ Contains(printed[2], SudoPrefix \o YumInstall)
    /\ printed[6] = FailLine

\* The hosts
Hosts == { RCC_IP, DCC_IP, BCC_IP }

\* Since the menu selection no step has been run twice on a host.
NoStepTwice ==
    \A ip \in Hosts :
        /\ Len(Issued(ip, "connect")) <= 1
        /\ Len(Issued(ip, "mkdir")) <= 1
        /\ Len(Issued(ip, "scp")) <= 1
        /\ LET yums == Issued(ip, "yum")
           IN  \A i, j \in 1..Len(yums) : i # j => yums[i].cmd # yums[j].cmd

\* At the menu a remote operation follows only a new selection.
MenuWaitsForSelection ==
    pc = "menu" => (log' = log \/ (log' = << >> /\ pc' # "menu" /\ choice' \in 0..5))

\* C16 as stated: within one invocation of install_remote the mkdir command
\* and the upload run at most once and the install command of each artifact
\* at most once, whatever their outcomes, and once main is back at the menu
\* no remote operation is performed before a new selection.
C16_NoRetries == [] NoStepTwice /\ [][MenuWaitsForSelection]_vars

\* Since the menu selection each host has been given at most one connect,
\* one mkdir and one upload, and its install commands are those of the
\* entries of the uploaded list, one per entry, in the order of the list.
NoStepRetried ==
    \A ip \in Hosts :
        /\ Len(Issued(ip, "connect")) <= 1
        /\ Len(Issued(ip, "mkdir")) <= 1
        /\ Len(Issued(ip, "scp")) <= 1
        /\ LET yums == Issued(ip, "yum")
               scps == Issued(ip, "scp")
           IN  yums # << >> =>
                   /\ Len(scps) = 1
                   /\ Len(yums) <= Len(scps[1].files)
                   /\ \A k \in 1..Len(yums) :
                          yums[k].cmd =
                              YumCommand(RemotePath(scps[1].cmd, scps[1].files[k]))

\* C16: within one invocation of install_remote the mkdir command and the
\* upload run at most once and the install command once for each entry of
\* the list, whatever their outcomes, and once main is back at the menu no
\* remote operation is performed before a new selection.
C16_NoRetriesPerEntry == [] NoStepRetried /\ [][MenuWaitsForSelection]_vars

C16_Witness ==
    /\ pc = "menu"
    /\ choice \in 0..2
    /\ ~mkdir_res
    /\ ~scp_res
    /\ ~yum_all
    /\ Len(to_install) = 2
    /\ to_install[1] = to_install[2]
    /\ Len(Issued(host, "mkdir")) = 1
    /\ Len(Issued(host, "scp")) = 1
    /\ Len(Issued(host, "yum")) = 2

\* C17: each list of pack_list is the subsequence of the input list made of
\* the artifacts of that host: same relative order, none twice, none dropped.
C17_OrderPreserved ==
    Classified =>
        /\ pack_lists.rcc =
               SelectSeq(rpms, LAMBDA n : MatchesAny(n, RCC_PACK_LIST))
        /\ pack_lists.dcc =
               SelectSeq(rpms, LAMBDA n : /\ ~MatchesAny(n, RCC_PACK_LIST)
                                          /\ MatchesAny(n, DCC_PACK_LIST))
        /\ pack_lists.bcc =
               SelectSeq(rpms, LAMBDA n : /\ ~MatchesAny(n, RCC_PACK_LIST)
                                          /\ ~MatchesAny(n, DCC_PACK_LIST)
                                          /\ MatchesAny(n, BCC_PACK_LIST))

C17_Witness ==
    /\ Classified
    /\ Len(pack_lists.rcc) >= 2
    /\ \E i, j, k \in 1..Len(rpms) :
           /\ i < j /\ j < k
           /\ rpms[i] = pack_lists.rcc[1]
           /\ rpms[j] \in Range(pack_lists.dcc) \cup Range(pack_lists.bcc)
           /\ rpms[k] = pack_lists.rcc[2]

\* C18: the number of sessions that are open never exceeds one.
C18_OneSessionOpen == sessions <= 1

\* The mkdir commands of the log
MkdirCommands == { log[i].cmd : i \in { k \in 1..Len(log) : log[k].op = "mkdir" } }

\* C19: in a full deployment every host is given the same staging directory.
C19_OneStagingDirectory ==
    choice = 4 => Cardinality(MkdirCommands) <= 1

\* C21: when a privileged command has been given the password on its
\* standard input, that input has been closed for writing by the time its
\* exit status is waited for.
C21_StdinClosedBeforeWait ==
    stdin_written # << >> => stdin_closed

\* Every prefix of the list is the prefix of an artifact of the pack
Covered(prefixes, pack) ==
    \A p \in Range(prefixes) : \E n \in Range(pack) : StartsWith(n, p)

\* C22: when pack_list accepts the batch without asking for an override,
\* every expected prefix of every host is the prefix of at least one artifact
\* assigned to that host.
C22_AcceptedCoversEveryPrefix ==
    (Classified /\ all_ok) =>
        /\ Covered(RCC_PACK_LIST, pack_lists.rcc)
        /\ Covered(DCC_PACK_LIST, pack_lists.dcc)
        /\ Covered(BCC_PACK_LIST, pack_lists.bcc)

\* C23: a session is established, or about to be, only after no_running_sw
\* got a yes in this operation, and in the full deployment only after a yes
\* to 'Ready to deploy these?' as well; after a no to that question nothing
\* remote is done.
C23_ConnectAfterShutdownConfirmed ==
    /\ (log # << >> \/ pc = "connect") =>
           /\ sw_down
           /\ choice \in { 0, 1, 2, 4 }
           /\ choice = 4 => ready = "yes"
    /\ ready = "no" => log = << >>
    /\ ready # "unasked" => sw_down

C23_Witness ==
    /\ choice = 4
    /\ sw_down
    /\ ready = "yes"
    /\ Len(log) = 1
    /\ log[1].op = "connect"
    /\ log[1].ip = RCC_IP

\* main is at the menu or has exited
AtMenu == pc \in { "menu", "exited" }

\* An exception has been caught: main is back at the menu, and in the full
\* deployment no host after the one that raised has been operated on.
CaughtAtMenu ==
    raised # "none" =>
        /\ pc = "menu"
        /\ raised = "SSHException" =>
               \A i \in 1..Len(log) : IpRank(log[i].ip) <= IpRank(host)

\* The program ends from the confirmed Exit choice only.
EndsByExitOnly == pc' = "exited" => (pc = "exit" /\ choice = 5)

\* The steps install_remote has left for the host it is deploying
HostSteps ==
    CASE pc = "connect" -> Len(to_install) + 5
      [] pc = "mkdir"   -> Len(to_install) + 4
      [] pc = "scp"     -> Len(to_install) + 3
      [] pc = "yum"     -> Len(to_install) - idx + 2
      [] pc = "ret"     -> 1
      [] OTHER          -> 0

\* A number that bounds the steps the operation has left before the menu
StepsLeft ==
    CASE pc \in { "verify", "verify_only", "rpm_ask", "exit" } -> 1000
      [] pc = "pack"  -> 900
      [] pc = "no_sw" -> 800
      [] pc = "ready" -> 700
      [] AtMenu       -> 0
      [] OTHER        ->
            (IF choice = 4 THEN 100 * (Len(DeployOrder) - step) ELSE 0)
                + HostSteps

\* A step inside an operation brings the menu nearer, but for a change of
\* the date, which happens MaxTicks times at most.
TowardsMenu ==
    ~AtMenu => (StepsLeft' < StepsLeft \/ today' # today)

\* C24: every step of an operation leads on towards the menu and none leads
\* back into the operation, whether the operation completes, is declined,
\* fails or raises; the program ends only from the confirmed Exit choice; an
\* exception raised for one host leaves the later hosts of the run untouched.
C24_BackToMenu ==
    /\ [] CaughtAtMenu
    /\ [] (pc = "exited" => choice = 5)
    /\ [][EndsByExitOnly /\ TowardsMenu]_vars

C24_Witness ==
    /\ pc = "menu"
    /\ choice = 4
    /\ raised = "SSHException"
    /\ host = DCC_IP
    /\ Len(log) > 3
    /\ \A i \in 1..Len(log) : log[i].ip # BCC_IP

====
